---- MODULE Spec2Model ----
(***************************************************************************)
(* Model of src/src/ai_agent.py: the security pipeline (sanitize, syntax   *)
(* check, score, classify), the file cache keyed by the prompt's digest    *)
(* and AIAgent.generate_response, run by several workers that share the    *)
(* cache directory.  Text is a sequence of one-character strings, so that  *)
(* str.replace, the substring test, json.dump and json.load are computed   *)
(* and not assumed.                                                        *)
(*                                                                         *)
(* And of src/Agent/src/agent_core.py: AgentMetrics, the performance       *)
(* callback that model calls report to, AgentCore.run, the performance     *)
(* statistics, CodeValidator and the code-execution helper.  Each part     *)
(* has its own specification over the one state: Spec (cache and           *)
(* generate), SpecMetrics, SpecHistory, SpecRun, SpecClassify,             *)
(* SpecValidate, SpecOrder and SpecSafeRun.                                *)
(***************************************************************************)
EXTENDS Integers, Sequences, FiniteSets, TLC

(* ------------------------------ bounds -------------------------------- *)

\* Calls (generate, put, get) started in one behaviour.
MaxOps == 2

\* Seconds that pass in one clock tick: the clock is followed until the
\* validity window of a security context has passed.
TickSeconds == 86400

\* Request records (model calls of the agent, direct calls of add_request)
\* in one behaviour of the metrics.
MaxRequests == 3

\* Calls of AgentCore.run in one behaviour.
MaxRuns == 4

\* Seconds the clock of the metrics is followed for.
MaxTime == 2

\* Records added in one behaviour of the request history: more than the
\* statistics report.
MaxHistory == 11

\* Calls of perform_security_checks in one behaviour.
MaxValidations == 2

\* Calls of _safe_run_python_code.
MaxSafeRuns == 2

(* ------------------------- program constants -------------------------- *)

\* CONFIG["security"]["min_acceptable_score"]
min_acceptable_score == 80

\* SecurityContext.is_valid: total_seconds() < 86400
ValiditySeconds == 86400

\* calculate_security_score: score = 100.0
InitialScore == 100

\* calculate_security_score: score -= 20
PatternPenalty == 20

\* update_security_level: security_score >= 90
HighScore == 90

\* update_security_level: security_score >= 70
MediumScore == 70

\* CONFIG["security"]["dangerous_patterns"], in the order of the list.
dangerous_patterns ==
    << <<"o", "s", ".", "s", "y", "s", "t", "e", "m">>,
       <<"e", "v", "a", "l", "(">>,
       <<"e", "x", "e", "c", "(">>,
       <<"_", "_", "i", "m", "p", "o", "r", "t", "_", "_">>,
       <<"s", "u", "b", "p", "r", "o", "c", "e", "s", "s">>,
       <<"o", "p", "e", "n", "(">>,
       <<"w", "r", "i", "t", "e", "(">>,
       <<"c", "h", "m", "o", "d">> >>

\* The text put before a removed pattern: f"# SECURITY REMOVED: {pattern}".
RemovedMarker ==
    <<"#", " ", "S", "E", "C", "U", "R", "I", "T", "Y", " ",
      "R", "E", "M", "O", "V", "E", "D", ":", " ">>

\* explanation="AI-generated secure response"
Explanation ==
    <<"A", "I", "-", "g", "e", "n", "e", "r", "a", "t", "e", "d", " ",
      "s", "e", "c", "u", "r", "e", " ", "r", "e", "s", "p", "o", "n", "s", "e">>

\* CONFIG["model"]
ModelName == <<"l", "l", "a", "m", "a", "2">>

(* ------------------------------ inputs -------------------------------- *)

\* The workers (threads or processes) that share the cache directory.
Workers == {1, 2}

Prompts == {"p1", "p2"}

\* What the model client returns as message content: nothing, clean code,
\* code that does not compile, a call of a denylisted pattern, an assignment
\* of one, which stops compiling once it is sanitized, and code with two
\* denylisted patterns.
Contents ==
    { <<>>,
      <<"x", "=", "1">>,
      <<"x", "=">>,
      <<"e", "v", "a", "l", "(", "x", ")">>,
      <<"y", "=", "e", "v", "a", "l", "(", "x", ")">>,
      <<"e", "x", "e", "c", "(", "o", "p", "e", "n", "(", "f", ")", ")">> }

\* Code with six denylisted patterns, one inside the other.
SixPatterns ==
    <<"o", "s", ".", "s", "y", "s", "t", "e", "m", "(", "e", "v", "a",
          "l", "(", "e", "x", "e", "c", "(", "o", "p", "e", "n", "(", "_",
          "_", "i", "m", "p", "o", "r", "t", "_", "_", "(", "s", "u", "b",
          "p", "r", "o", "c", "e", "s", "s", ")", ")", ")", ")", ")">>

\* The code perform_security_checks is called with: what the model client
\* returns, the code of test_security_check, and code with six patterns.
RawCodes ==
    Contents \cup { <<"e", "v", "a", "l", "(", "'", "2", "+", "2", "'", ")">>, SixPatterns }

\* The exceptions the model client raises: no connection, a non-success
\* status, a timeout.
ClientErrors == {"ConnectError", "ResponseError", "ReadTimeout"}

\* The model calls of the agent that report to one callback.
LlmCalls == 1 .. MaxRequests

\* str(error) of the failures on_llm_error is told of.
LlmErrors == {"Request timed out", "Error calling Ollama API"}

\* The prompts AgentCore.run is called with: none, and the one of
\* test_metrics_tracking.
RunPrompts == {"", "Hello, world!"}

\* What agent.run does in the executor.
AgentResults == {"returns", "raises"}

\* The scores update_security_level is run on.
Scores == 0 .. 100

\* The vulnerability lists update_security_level is run on.
VulnerabilityLists == {<<>>, <<"eval(">>, <<"eval(", "open(">>}

(* ------------------------------ text ---------------------------------- *)

\* s[i..] starts with pat.
StartsAt(s, i, pat) ==
    /\ i + Len(pat) - 1 <= Len(s)
    /\ \A k \in 1..Len(pat) : s[i + k - 1] = pat[k]

\* Python's `pat in s`.
Contains(s, pat) == \E i \in 1..(Len(s) + 1) : StartsAt(s, i, pat)

RECURSIVE ReplaceFrom(_, _, _, _)
\* str.replace from position i on: leftmost occurrences, never overlapping,
\* the inserted text is not scanned again.
ReplaceFrom(s, i, old, new) ==
    LET found == {j \in i .. Len(s) : StartsAt(s, j, old)}
    IN  IF found = {} THEN SubSeq(s, i, Len(s))
        ELSE LET j == CHOOSE x \in found : \A y \in found : x <= y
             IN  SubSeq(s, i, j - 1) \o new
                     \o ReplaceFrom(s, j + Len(old), old, new)

\* Python's s.replace(old, new) for a non-empty old.
Replace(s, old, new) == ReplaceFrom(s, 1, old, new)

(* ------------------------- SecurityManager ---------------------------- *)

RECURSIVE SanitizeFrom(_, _)
\* The loop of sanitize_code from pattern number k on.
SanitizeFrom(code, k) ==
    IF k > Len(dangerous_patterns) THEN code
    ELSE SanitizeFrom(
             Replace(code, dangerous_patterns[k],
                     RemovedMarker \o dangerous_patterns[k]),
             k + 1)

sanitize_code(code) == SanitizeFrom(code, 1)

RECURSIVE CommentStart(_, _, _)
\* Index of the "#" that opens a comment in a one-line text (a "#" inside a
\* quoted string opens none), Len(s) + 1 when there is none.  q is the open
\* quote character, "" outside a string.
CommentStart(s, i, q) ==
    IF i > Len(s) THEN Len(s) + 1
    ELSE IF q = ""
         THEN IF s[i] = "#" THEN i
              ELSE IF s[i] \in {"'", "\""} THEN CommentStart(s, i + 1, s[i])
              ELSE CommentStart(s, i + 1, "")
         ELSE IF s[i] = q THEN CommentStart(s, i + 1, "")
              ELSE CommentStart(s, i + 1, q)

\* The statement of a one-line text: the text before its comment.
Statement(s) == SubSeq(s, 1, CommentStart(s, 1, "") - 1)

\* The statements of the modelled texts that Python's compile() accepts;
\* the empty statement (a blank or comment-only line) is accepted too.
CompilingStatements ==
    { <<>>,
      <<"x", "=", "1">>,
      <<"e", "v", "a", "l", "(", "x", ")">>,
      <<"e", "v", "a", "l", "(", "'", "2", "+", "2", "'", ")">>,
      <<"y", "=", "e", "v", "a", "l", "(", "x", ")">>,
      <<"e", "x", "e", "c", "(", "o", "p", "e", "n", "(", "f", ")", ")">> }

\* compile(code, '<string>', 'exec') raises no SyntaxError.
validate_syntax(code) == Statement(code) \in CompilingStatements

RECURSIVE ScoreFrom(_, _, _)
\* The loop of calculate_security_score from pattern number k on.
ScoreFrom(code, k, score) ==
    IF k > Len(dangerous_patterns) THEN score
    ELSE ScoreFrom(code, k + 1,
                   IF Contains(code, dangerous_patterns[k])
                   THEN score - PatternPenalty ELSE score)

\* calculate_security_score, were the score not held at 0.
ScoreUnclamped(code) == ScoreFrom(code, 1, InitialScore)

calculate_security_score(code) ==
    LET score == ScoreFrom(code, 1, InitialScore)
    IN  IF score < 0 THEN 0 ELSE score

\* update_security_level, were the vulnerability list not looked at.
LevelOfScoreAlone(security_score, vulnerabilities) ==
    IF security_score >= HighScore THEN "HIGH"
    ELSE IF security_score >= MediumScore THEN "MEDIUM"
    ELSE "LOW"

\* SecurityContext.update_security_level: the level for a score and a
\* vulnerability list.
update_security_level(security_score, vulnerabilities) ==
    IF security_score >= HighScore /\ vulnerabilities = <<>> THEN "HIGH"
    ELSE IF security_score >= MediumScore THEN "MEDIUM"
    ELSE "LOW"

\* SecurityContext() as the dataclass and __post_init__ build it at time t.
SecurityContext(t) ==
    [sanitized |-> FALSE, validated |-> FALSE, security_score |-> 0,
     vulnerabilities |-> <<>>, last_checked |-> t, security_level |-> "LOW"]

\* The part of perform_security_checks that does not read the clock: the
\* sanitized code, the syntax verdict on it and its score.
SecurityChecks(code) ==
    LET sanitized_code == sanitize_code(code)
    IN  [sanitized_code |-> sanitized_code,
         valid_syntax   |-> validate_syntax(sanitized_code),
         security_score |-> calculate_security_score(sanitized_code)]

\* SecurityChecks of every code of the model, computed once.
ChecksOfContents == [c \in RawCodes |-> SecurityChecks(c)]

\* perform_security_checks, were update_security_level not called: the
\* level stays as the dataclass set it.
ChecksWithoutLevelUpdate(code, t) ==
    LET checks == ChecksOfContents[code]
    IN  << [SecurityContext(t) EXCEPT !.validated = checks.valid_syntax,
                                      !.security_score = checks.security_score,
                                      !.sanitized = TRUE],
           checks.sanitized_code >>

\* perform_security_checks, were the syntax verdict of a call kept for the
\* calls after it: from the second day on every code counts as validated.
ChecksRememberingVerdict(code, t) ==
    LET checks == ChecksOfContents[code]
    IN  << [SecurityContext(t) EXCEPT
               !.validated = checks.valid_syntax \/ t > 0,
               !.security_score = checks.security_score,
               !.sanitized = TRUE,
               !.security_level =
                   update_security_level(checks.security_score, <<>>)],
           checks.sanitized_code >>

\* perform_security_checks(code) run at time t: <<context, sanitized code>>.
perform_security_checks(code, t) ==
    LET checks == IF code \in RawCodes THEN ChecksOfContents[code]
                  ELSE SecurityChecks(code)
        ctx    == SecurityContext(t)
    IN  << [ctx EXCEPT !.validated = checks.valid_syntax,
                       !.security_score = checks.security_score,
                       !.sanitized = TRUE,
                       !.security_level =
                           update_security_level(checks.security_score,
                                                 ctx.vulnerabilities)],
           checks.sanitized_code >>

\* SecurityContext.is_valid at time t.
is_valid(ctx, t) == ctx.validated /\ (t - ctx.last_checked) < ValiditySeconds

\* CodeResponse.is_secure.
is_secure(response) ==
    /\ response.security_context.security_score >= min_acceptable_score
    /\ response.security_context.security_level # "LOW"
    /\ response.security_context.vulnerabilities = <<>>

(* ------------------------- order of the denylist ---------------------- *)

RECURSIVE SanitizeWith(_, _, _)
\* The loop of sanitize_code from pattern number k on, with `patterns` as
\* CONFIG["security"]["dangerous_patterns"].
SanitizeWith(patterns, code, k) ==
    IF k > Len(patterns) THEN code
    ELSE SanitizeWith(patterns,
                      Replace(code, patterns[k], RemovedMarker \o patterns[k]),
                      k + 1)

RECURSIVE ScoreWith(_, _, _, _)
\* The loop of calculate_security_score from pattern number k on, with
\* `patterns` as the configured list.
ScoreWith(patterns, code, k, score) ==
    IF k > Len(patterns) THEN score
    ELSE ScoreWith(patterns, code, k + 1,
                   IF Contains(code, patterns[k])
                   THEN score - PatternPenalty ELSE score)

\* The sanitized code and the score of perform_security_checks, were the
\* first pattern of the list the only one looked at.
ChecksWithFirstPatternOnly(patterns, code) ==
    LET sanitized_code == SanitizeWith(SubSeq(patterns, 1, 1), code, 1)
    IN  [sanitized_code |-> sanitized_code,
         security_score |-> ScoreWith(SubSeq(patterns, 1, 1),
                                      sanitized_code, 1, InitialScore)]

\* The sanitized code and the score of perform_security_checks with
\* `patterns` as the configured list.
ChecksWith(patterns, code) ==
    LET sanitized_code == SanitizeWith(patterns, code, 1)
        score == ScoreWith(patterns, sanitized_code, 1, InitialScore)
    IN  [sanitized_code |-> sanitized_code,
         security_score |-> IF score < 0 THEN 0 ELSE score]

\* Configured lists: the one of the program, one with a pattern inside
\* another, one with patterns that overlap, and one with a pattern that
\* occurs in the marker.
Denylists ==
    { dangerous_patterns,
      << <<"o", "p", "e", "n", "(">>, <<"p", "o", "p", "e", "n", "(">> >>,
      << <<"e", "v", "a", "l", "(">>, <<"l", "(", "x">> >>,
      << <<"e", "v", "a", "l", "(">>,
         <<"R", "E", "M", "O", "V", "E", "D">> >> }

\* The list with the patterns at i and j exchanged.
Exchanged(patterns, i, j) ==
    [k \in DOMAIN patterns |->
        IF k = i THEN patterns[j] ELSE IF k = j THEN patterns[i]
        ELSE patterns[k]]

\* The list turned by r places.
Turned(patterns, r) ==
    [k \in DOMAIN patterns |-> patterns[((k + r - 1) % Len(patterns)) + 1]]

\* The list backwards.
Reversed(patterns) ==
    [k \in DOMAIN patterns |-> patterns[Len(patterns) + 1 - k]]

\* Orderings of a list: itself, every exchange of two patterns, every
\* turn, and the list backwards.
Orderings(patterns) ==
    {Exchanged(patterns, i, j) : i, j \in DOMAIN patterns}
    \cup {Turned(patterns, r) : r \in DOMAIN patterns}
    \cup {Reversed(patterns)}

\* The code checked under the orderings: the code of the security checks
\* and a call of popen.
OrderCodes ==
    RawCodes \cup { <<"p", "o", "p", "e", "n", "(", "f", ")">> }

\* ChecksWith of every ordering and code of the model, computed once.
ChecksOfOrderings ==
    [x \in (UNION {Orderings(d) : d \in Denylists}) \X OrderCodes |->
        ChecksWith(x[1], x[2])]

(* ------------------------------- json --------------------------------- *)

\* A Python value as json.dump sees it: t is its type, s the text of a str,
\* d the items of a dict (pairs <<key, value>> in insertion order).
PyStr(s)  == [t |-> "str", s |-> s, d |-> <<>>]
PyDict(d) == [t |-> "dict", s |-> <<>>, d |-> d]
PyObject(type) == [t |-> type, s |-> <<>>, d |-> <<>>]

RECURSIVE EscapeFrom(_, _)
\* json's escaping of the characters of s from position i on.
EscapeFrom(s, i) ==
    IF i > Len(s) THEN <<>>
    ELSE (IF s[i] \in {"\"", "\\"} THEN <<"\\", s[i]>> ELSE <<s[i]>>)
         \o EscapeFrom(s, i + 1)

\* json's encoding of a str: quoted and escaped.
EncodeString(s) == <<"\"">> \o EscapeFrom(s, 1) \o <<"\"">>

RECURSIVE DumpItems(_, _)
\* The chunks json.dump writes for the items of a dict from item k on, up to
\* and including the closing brace; ok is FALSE when a value that is neither
\* a str nor a dict stops the encoder with TypeError, and bytes is then what
\* had been written before it.
DumpItems(items, k) ==
    IF k > Len(items) THEN [ok |-> TRUE, bytes |-> <<"}">>]
    ELSE LET head == (IF k = 1 THEN <<>> ELSE <<",", " ">>)
                     \o EncodeString(items[k][1]) \o <<":", " ">>
             v    == items[k][2]
         IN  IF v.t = "str"
             THEN LET rest == DumpItems(items, k + 1)
                  IN  [ok |-> rest.ok,
                       bytes |-> head \o EncodeString(v.s) \o rest.bytes]
             ELSE IF v.t = "dict"
             THEN LET inner == DumpItems(v.d, 1)
                  IN  IF inner.ok
                      THEN LET rest == DumpItems(items, k + 1)
                           IN  [ok |-> rest.ok,
                                bytes |-> head \o <<"{">> \o inner.bytes
                                          \o rest.bytes]
                      ELSE [ok |-> FALSE,
                            bytes |-> head \o <<"{">> \o inner.bytes]
             ELSE [ok |-> FALSE, bytes |-> head]

\* json.dump(obj, f) for a dict obj: what reaches the file, and whether the
\* call returned (ok) or raised TypeError.
JsonDump(obj) ==
    LET r == DumpItems(obj.d, 1)
    IN  [ok |-> r.ok, bytes |-> <<"{">> \o r.bytes]

RECURSIVE SkipWs(_, _)
SkipWs(s, i) == IF i <= Len(s) /\ s[i] = " " THEN SkipWs(s, i + 1) ELSE i

RECURSIVE ScanString(_, _)
\* i is the position after an opening quote: the position after the closing
\* quote, 0 when the string does not end.
ScanString(s, i) ==
    IF i > Len(s) THEN 0
    ELSE IF s[i] = "\"" THEN i + 1
    ELSE IF s[i] = "\\" THEN (IF i + 1 > Len(s) THEN 0 ELSE ScanString(s, i + 2))
    ELSE ScanString(s, i + 1)

RECURSIVE ScanValue(_, _)
RECURSIVE ScanMembers(_, _)
\* The position after the JSON value that starts at i, 0 when there is none.
\* Values are strings and objects: the writer of this program emits nothing
\* else, and no number, array or literal can start a value in a file it wrote.
ScanValue(s, i) ==
    IF i > Len(s) THEN 0
    ELSE IF s[i] = "\"" THEN ScanString(s, i + 1)
    ELSE IF s[i] = "{"
         THEN LET j == SkipWs(s, i + 1)
              IN  IF j <= Len(s) /\ s[j] = "}" THEN j + 1 ELSE ScanMembers(s, j)
    ELSE 0

\* The position after the closing brace of an object whose next member
\* starts at i, 0 when the text is no object.
ScanMembers(s, i) ==
    IF i > Len(s) \/ s[i] # "\"" THEN 0
    ELSE LET k == ScanString(s, i + 1)
             j == SkipWs(s, k)
         IN  IF k = 0 \/ j > Len(s) \/ s[j] # ":" THEN 0
             ELSE LET v == ScanValue(s, SkipWs(s, j + 1))
                      m == SkipWs(s, v)
                  IN  IF v = 0 \/ m > Len(s) THEN 0
                      ELSE IF s[m] = "," THEN ScanMembers(s, SkipWs(s, m + 1))
                      ELSE IF s[m] = "}" THEN m + 1
                      ELSE 0

\* json.load(f) returns (TRUE) or raises JSONDecodeError (FALSE).
JsonLoads(s) ==
    LET v == ScanValue(s, SkipWs(s, 1))
    IN  v # 0 /\ SkipWs(s, v) = Len(s) + 1

(* ----------------------------- CodeResponse --------------------------- *)

\* CodeResponse(...) as generate_response builds it at time t from the
\* model's content.
CodeResponse(content, t) ==
    LET checks == perform_security_checks(content, t)
    IN  [code |-> checks[2],
         explanation |-> Explanation,
         security_context |-> checks[1],
         metadata |-> ModelName,
         timestamp |-> t]

\* The absence of a response (Python's None) in a field that holds one.
NoResponse ==
    [code |-> <<>>, explanation |-> <<>>,
     security_context |-> SecurityContext(0), metadata |-> <<>>,
     timestamp |-> -1]

\* response.__dict__: the fields in the order of the dataclass; the
\* security context is a SecurityContext object, the timestamp a datetime.
ResponseDict(response) ==
    PyDict(<< << <<"c", "o", "d", "e">>, PyStr(response.code) >>,
              << <<"e", "x", "p", "l", "a", "n", "a", "t", "i", "o", "n">>,
                 PyStr(response.explanation) >>,
              << <<"s", "e", "c", "u", "r", "i", "t", "y", "_",
                   "c", "o", "n", "t", "e", "x", "t">>,
                 PyObject("SecurityContext") >>,
              << <<"m", "e", "t", "a", "d", "a", "t", "a">>,
                 PyDict(<< << <<"m", "o", "d", "e", "l">>,
                              PyStr(response.metadata) >> >>) >>,
              << <<"t", "i", "m", "e", "s", "t", "a", "m", "p">>,
                 PyObject("datetime") >> >>)

\* json.dump(response.__dict__, f): what reaches the file and whether the
\* call returned.
DumpResponse(response) == JsonDump(ResponseDict(response))

\* DumpResponse of the responses generate_response builds, computed once for
\* each code: the encoder stops at the security context, before any field
\* that depends on the clock.
DumpsOfContents ==
    [c \in Contents |-> DumpResponse(CodeResponse(c, 0))]

(* ----------------------------- CacheManager --------------------------- *)

\* get_cache_key: the SHA-256 hex digest of the prompt, taken as an
\* injective function of the prompt.
get_cache_key(prompt) == <<"sha256", prompt>>

CacheKeys == {get_cache_key(p) : p \in Prompts}

NoFile == [exists |-> FALSE, bytes |-> <<>>]

\* open(cache_file, 'w'): the file exists and is empty.
OpenForWriting(fs, key) == [fs EXCEPT ![key] = [exists |-> TRUE, bytes |-> <<>>]]

\* Closing the file flushes the buffered text at offset 0 of the file as it
\* is then: bytes of the file beyond the flushed text stay.
FlushAndClose(fs, key, buf) ==
    [fs EXCEPT ![key] =
        [exists |-> TRUE,
         bytes |-> buf \o SubSeq(fs[key].bytes, Len(buf) + 1,
                                 Len(fs[key].bytes))]]

\* get_cached_response: None when no file exists; json.load's
\* JSONDecodeError leaves the method when the file does not decode;
\* otherwise CodeResponse(**data), whose security_context is the decoded
\* dict.
get_cached_response(fs, prompt) ==
    LET f == fs[get_cache_key(prompt)]
    IN  IF ~f.exists THEN [kind |-> "None", error |-> ""]
        ELSE IF ~JsonLoads(f.bytes)
             THEN [kind |-> "raise", error |-> "JSONDecodeError"]
             ELSE [kind |-> "CodeResponse", error |-> ""]

\* What the cached-response test of generate_response does with the result
\* of get_cached_response: "miss" goes on to the model, otherwise the
\* exception that leaves generate_response.  is_secure() reads
\* security_context.security_score, which a decoded dict does not have.
CachedResponseCheck(cached) ==
    IF cached.kind = "None" THEN "miss"
    ELSE IF cached.kind = "raise" THEN cached.error
    ELSE "AttributeError"

\* The no-content test written as `if message_content is None`: an empty
\* string passes it.
NoContentIsNone(message_content) == FALSE

\* `if not message_content`
NoContent(message_content) == message_content = <<>>

\* The exception raised for no content.
NoContentError == "SecurityError"

\* The client's exception caught and replaced by the module's own error.
ClientFailureWrapped(e) == "SecurityError"

\* The exception that leaves generate_response when ollama.chat raises e:
\* the call is in no try block.
ClientFailure(e) == e

\* The exception that leaves cache_response, and with it generate_response,
\* when json.dump raises: neither has a try block.
DumpFailure == "TypeError"

(* ----------------------------- AgentMetrics --------------------------- *)

\* None, for the optional fields of RequestMetrics and AgentMetrics: times
\* and durations are seconds, so None is kept apart from them.
NoTime == -1

NoDuration == -1

NoError == "<None>"

\* RequestMetrics(start_time=...): end_time, duration and error None,
\* success False.  call names the model call whose start created the
\* record (0: created by a caller of add_request), which tells the objects
\* apart as Python's identity does.
RequestMetrics(call, start_time) ==
    [call |-> call, start_time |-> start_time, end_time |-> NoTime,
     duration |-> NoDuration, success |-> FALSE, error |-> NoError]

\* The numbers of average_response_time and success_rate, as fractions in
\* lowest terms: the float arithmetic of the program is taken as exact.
RECURSIVE Gcd(_, _)
Gcd(a, b) == IF b = 0 THEN a ELSE Gcd(b, a % b)

Fraction(n, d) ==
    IF n = 0 THEN [num |-> 0, den |-> 1]
    ELSE LET g == Gcd(n, d) IN [num |-> n \div g, den |-> d \div g]

\* (average * (count - 1) + duration) / count
RunningAverage(average, count, duration) ==
    Fraction(average.num * (count - 1) + duration * average.den,
             average.den * count)

\* AgentMetrics()
AgentMetrics ==
    [total_requests |-> 0, successful_requests |-> 0, failed_requests |-> 0,
     average_response_time |-> Fraction(0, 1), last_error |-> NoError,
     last_activity |-> NoTime, request_history |-> <<>>]

\* add_request with a successful record.
AddSuccess(self, metrics) ==
    LET count == self.successful_requests + 1
    IN  [self EXCEPT
            !.successful_requests = count,
            !.average_response_time =
                IF metrics.duration = NoDuration THEN @
                ELSE IF count = 1 THEN Fraction(metrics.duration, 1)
                ELSE RunningAverage(@, count, metrics.duration)]

\* add_request with a failed record, were failed_requests left as it is.
AddFailureUncounted(self, metrics) ==
    [self EXCEPT !.last_error = metrics.error]

\* add_request with a failed record.
AddFailure(self, metrics) ==
    [self EXCEPT !.failed_requests = @ + 1, !.last_error = metrics.error]

\* AgentMetrics.add_request: the metrics after the call.
add_request(self, metrics) ==
    LET counted == [self EXCEPT
                       !.request_history = Append(@, metrics),
                       !.total_requests = @ + 1]
        tallied == IF metrics.success THEN AddSuccess(counted, metrics)
                   ELSE AddFailure(counted, metrics)
    IN  [tallied EXCEPT
            !.last_activity = IF metrics.end_time # NoTime
                              THEN metrics.end_time ELSE metrics.start_time]

\* The slice [-10:] of get_performance_stats.
RecentWindow == 10

\* seq[:k], the first k where the last k are meant.
FirstK(seq, k) ==
    SubSeq(seq, 1, IF Len(seq) < k THEN Len(seq) ELSE k)

\* seq[-k:]
LastK(seq, k) ==
    LET n == Len(seq)
        start == IF n - k > 0 THEN n - k ELSE 0
    IN  SubSeq(seq, start + 1, n)

\* f"{x:.2f}s" of a fraction: its hundredths, rounded, and the unit.
FormatSeconds(x) ==
    [hundredths |-> (2 * 100 * x.num + x.den) \div (2 * x.den), unit |-> "s"]

\* strftime("%Y-%m-%d %H:%M:%S"): the time to the second.
Strftime(t) == [format |-> "%Y-%m-%d %H:%M:%S", second |-> t]

\* One entry of recent_requests.
RecentRequest(req) ==
    [timestamp |-> Strftime(req.start_time),
     duration  |-> IF req.duration # NoDuration /\ req.duration # 0
                   THEN <<FormatSeconds(Fraction(req.duration, 1))>>
                   ELSE <<>>,
     success   |-> req.success,
     error     |-> req.error]

\* AgentCore.get_performance_stats on the metrics `self`.
get_performance_stats(self) ==
    LET recent == LastK(self.request_history, RecentWindow)
    IN  [total_requests |-> self.total_requests,
         successful_requests |-> self.successful_requests,
         failed_requests |-> self.failed_requests,
         success_rate |->
             IF self.total_requests > 0
             THEN Fraction(self.successful_requests, self.total_requests)
             ELSE Fraction(0, 1),
         average_response_time |-> FormatSeconds(self.average_response_time),
         last_activity |-> IF self.last_activity # NoTime
                           THEN <<Strftime(self.last_activity)>> ELSE <<>>,
         last_error |-> self.last_error,
         recent_requests |-> [k \in DOMAIN recent |-> RecentRequest(recent[k])]]

\* The records callers hand to add_request at time t: a success with no
\* duration, successes that took 1 and 3 seconds, and a failure.
DirectRecords(t) ==
    {[RequestMetrics(0, t) EXCEPT !.success = TRUE]}
    \cup {[RequestMetrics(0, t) EXCEPT !.success = TRUE, !.duration = d,
                                       !.end_time = t + d] : d \in {1, 3}}
    \cup {[RequestMetrics(0, t) EXCEPT !.error = "failed"]}

(* ---------------------------- CodeValidator ---------------------------- *)

BLOCKED_IMPORTS ==
    {"os", "subprocess", "sys", "builtins", "shutil",
     "pickle", "marshal", "base64", "codecs"}

BLOCKED_ATTRIBUTES ==
    {"eval", "exec", "compile", "__import__", "open",
     "file", "execfile", "input", "raw_input"}

\* A node of the tree ast.parse builds, as far as validate_code looks at
\* it: its class, the dotted names an import statement imports (each the
\* tuple of its parts), the attribute an Attribute node reads, and the
\* class and identifier of the function a Call node calls.
Node(type, names, attr, func, id) ==
    [type |-> type, names |-> names, attr |-> attr, func |-> func, id |-> id]

Import(names) == Node("Import", names, "", "", "")

ImportFrom(names) == Node("ImportFrom", names, "", "", "")

Attribute(attr) == Node("Attribute", <<>>, attr, "", "")

CallOfName(id) == Node("Call", <<>>, "", "Name", id)

CallOfAttribute == Node("Call", <<>>, "", "Attribute", "")

Other == Node("Other", <<>>, "", "", "")

\* A piece of code handed to the validator: its text, what ast.parse does
\* with it ("tree", "SyntaxError", or another exception such as the
\* TypeError of an argument that is no string), and the nodes of its tree
\* in the order of ast.walk.
Program(text, parse, nodes) ==
    [text |-> text, parse |-> parse, nodes |-> nodes]

\* The dangerous code of test_code_validation.
DangerousCode ==
    Program("import os; os.system('rm -rf /')", "tree",
            <<Other, Import(<< <<"os">> >>), Other, Other, CallOfAttribute,
              Attribute("system"), Other, Other, Other, Other>>)

\* Code that reaches os.system and passes: the names imported are looked
\* at, never the module they are imported from.
FromImportCode ==
    Program("from os import system\nsystem('ls')", "tree",
            <<Other, ImportFrom(<< <<"system">> >>), Other, Other,
              CallOfName("system"), Other, Other, Other>>)

Programs ==
    {DangerousCode, FromImportCode,
     Program("print(1)", "tree",
             <<Other, Other, CallOfName("print"), Other, Other, Other>>),
     Program("", "tree", <<Other>>),
     Program("import numpy, os.path", "tree",
             <<Other, Import(<< <<"numpy">>, <<"os", "path">> >>),
               Other, Other>>),
     Program("eval('1')", "tree",
             <<Other, Other, CallOfName("eval"), Other, Other, Other>>),
     Program("f.open()", "tree",
             <<Other, Other, CallOfAttribute, Attribute("open"),
               Other, Other, Other>>),
     Program("x = (", "SyntaxError", <<>>),
     Program("<None>", "TypeError", <<>>)}

\* name.name of an alias: its parts joined by dots, kept as the parts.
NoMessage == [text |-> "<None>", name |-> <<>>]

Message(text, name) == [text |-> text, name |-> name]

\* The first blocked name of an import statement, from the k-th on.
RECURSIVE BlockedName(_, _)
BlockedName(names, k) ==
    IF k > Len(names) THEN <<>>
    ELSE IF names[k][1] \in BLOCKED_IMPORTS THEN names[k]
    ELSE BlockedName(names, k + 1)

\* What the loop over ast.walk returns from the k-th node on.
RECURSIVE Walk(_, _)
Walk(nodes, k) ==
    IF k > Len(nodes) THEN <<TRUE, NoMessage>>
    ELSE LET node == nodes[k]
         IN  IF node.type \in {"Import", "ImportFrom"}
             THEN IF BlockedName(node.names, 1) # <<>>
                  THEN <<FALSE, Message("Blocked import: ",
                                        BlockedName(node.names, 1))>>
                  ELSE Walk(nodes, k + 1)
             ELSE IF node.type = "Attribute"
             THEN IF node.attr \in BLOCKED_ATTRIBUTES
                  THEN <<FALSE, Message("Blocked attribute: ",
                                        <<node.attr>>)>>
                  ELSE Walk(nodes, k + 1)
             ELSE IF node.type = "Call"
             THEN IF node.func = "Name" /\ node.id \in BLOCKED_ATTRIBUTES
                  THEN <<FALSE, Message("Blocked function call: ",
                                        <<node.id>>)>>
                  ELSE Walk(nodes, k + 1)
             ELSE Walk(nodes, k + 1)

\* validate_code: the pair (is_safe, error_message).
validate_code(code) ==
    IF code.parse = "tree" THEN Walk(code.nodes, 1)
    ELSE IF code.parse = "SyntaxError"
    THEN <<FALSE, Message("Invalid syntax: ", <<code.parse>>)>>
    ELSE <<FALSE, Message("Validation error: ", <<code.parse>>)>>

\* What a call of _safe_run_python_code is: the code it was given, where
\* it is ("validated" while the worker pool has the code, "done" once it
\* has returned or raised), the verdict of validate_code, whether
\* run_python_code was started on the code, and its outcome: "return" with
\* the string returned, or "raise".
SafeRuns == 1 .. MaxSafeRuns

NoSafeRun ==
    [at |-> "idle", code |-> Program("", "tree", <<>>), is_safe |-> FALSE,
     executed |-> FALSE, outcome |-> "", value |-> NoMessage]

\* The strings run_python_code returns: the output of the child process,
\* or the exception of subprocess.run (the timeout of 30 seconds, a
\* missing interpreter).
ToolResults == {"Output:", "Error running code: "}

\* The exceptions the awaited executor call raises: the executor was shut
\* down, or run_python_code raised before its try (the temporary file).
ExecutorErrors == {"RuntimeError", "OSError"}

\* A mutant of the gate: every code is handed to the worker pool.
SubmitsAnyCode(is_safe) == TRUE

\* `if not is_safe: return ...`: the code goes on to the pool when safe.
Submits(is_safe) == is_safe

(* ------------------------------- state -------------------------------- *)

VARIABLES
    now,        \* the clock, in seconds
    files,      \* the cache directory: file of each cache key
    pc,         \* where each worker is: "idle", "chat", "close"
    cur,        \* the call each worker runs
    modelCalls, \* how often ollama.chat was called for each prompt
    log,        \* the completed calls, in the order they completed
    metrics,    \* AgentCore.metrics, the AgentMetrics object
    current_request, \* the callback's _current_request: <<>> is None
    llm,        \* where each model call of the agent is
    runs,       \* the completed calls of AgentCore.run
    stats,      \* the performance statistics last taken
    checked,    \* the results of the calls of perform_security_checks
    classified, \* the SecurityContext update_security_level last ran on
    reordered,  \* the security checks last run under an ordered denylist
    safe_run,   \* the calls of _safe_run_python_code
    executions  \* the codes run_python_code was run on, in order

cacheVars == <<files, pc, cur, modelCalls, log>>

metricsVars == <<metrics, current_request, llm, runs, stats>>

validateVars == <<checked, classified, reordered>>

toolVars == <<safe_run, executions>>

vars == <<now, cacheVars, metricsVars, validateVars, toolVars>>

\* A call.  kind is "generate", "put" or "get"; startedAt is the number of
\* calls completed when it started and time the clock then; entry is the
\* cache file as the call found it; client is "returned" or "raised" once
\* ollama.chat has, content what it returned and clientError what it
\* raised; response is the response built or passed in; buf and dumpOk are
\* what json.dump wrote and whether it returned; wrote tells that the call
\* opened the cache file for writing.  Of a completed call, outcome is
\* "return" or "raise", error the exception raised, got the kind of value
\* returned ("None", "CodeResponse") and value the CodeResponse returned.
NoCall ==
    [kind |-> "", prompt |-> "", startedAt |-> 0, time |-> 0, entry |-> "",
     client |-> "", content |-> <<>>, clientError |-> "",
     response |-> NoResponse, buf |-> <<>>, dumpOk |-> FALSE,
     wrote |-> FALSE,
     outcome |-> "", error |-> "", got |-> "", value |-> NoResponse]

\* How a call finds the cache file of a prompt.
EntryState(fs, prompt) ==
    LET f == fs[get_cache_key(prompt)]
    IN  IF ~f.exists THEN "absent"
        ELSE IF JsonLoads(f.bytes) THEN "decodable" ELSE "corrupt"

\* A call of `kind` for `prompt` that starts now.
NewCall(kind, prompt) ==
    [NoCall EXCEPT !.kind = kind, !.prompt = prompt, !.startedAt = Len(log),
                   !.time = now, !.entry = EntryState(files, prompt)]

Raises(call, error) == [call EXCEPT !.outcome = "raise", !.error = error]

ReturnsNone(call) == [call EXCEPT !.outcome = "return", !.got = "None"]

ReturnsResponse(call, response) ==
    [call EXCEPT !.outcome = "return", !.got = "CodeResponse",
                 !.value = response]

Started == Len(log) + Cardinality({w \in Workers : pc[w] # "idle"})

\* A new call is taken by the first idle worker: idle workers do not differ.
Takes(w) ==
    /\ pc[w] = "idle"
    /\ \A v \in Workers : v < w => pc[v] # "idle"
    /\ Started < MaxOps

Init ==
    /\ now = 0
    /\ files = [k \in CacheKeys |-> NoFile]
    /\ pc = [w \in Workers |-> "idle"]
    /\ cur = [w \in Workers |-> NoCall]
    /\ modelCalls = [p \in Prompts |-> 0]
    /\ log = <<>>
    /\ metrics = AgentMetrics
    /\ current_request = <<>>
    /\ llm = [c \in LlmCalls |-> "idle"]
    /\ runs = <<>>
    /\ stats = <<>>
    /\ checked = <<>>
    /\ classified = SecurityContext(0)
    /\ reordered = <<>>
    /\ safe_run = [h \in SafeRuns |-> NoSafeRun]
    /\ executions = <<>>

(* ------------------------------ actions ------------------------------- *)

\* Time passes.
Tick ==
    /\ now < ValiditySeconds
    /\ now' = now + TickSeconds
    /\ UNCHANGED <<cacheVars, metricsVars, validateVars, toolVars>>

\* generate_response up to the call of the model client: the cache lookup
\* and the test of what it returned.
GenerateStart(w, prompt) ==
    /\ Takes(w)
    /\ LET call  == NewCall("generate", prompt)
           check == CachedResponseCheck(get_cached_response(files, prompt))
       IN  IF check = "miss"
           THEN /\ pc' = [pc EXCEPT ![w] = "chat"]
                /\ cur' = [cur EXCEPT ![w] = call]
                /\ log' = log
           ELSE /\ log' = Append(log, Raises(call, check))
                /\ UNCHANGED <<pc, cur>>
    /\ UNCHANGED <<now, files, modelCalls>>
    /\ UNCHANGED <<metricsVars, validateVars, toolVars>>

\* ollama.chat returns content: the no-content test, the security checks,
\* the response, and cache_response up to the end of json.dump (the file is
\* opened, which empties it, and the encoder's chunks are buffered).
ChatReturns(w, content) ==
    /\ pc[w] = "chat"
    /\ modelCalls' = [modelCalls EXCEPT ![cur[w].prompt] = @ + 1]
    /\ LET call == [cur[w] EXCEPT !.client = "returned", !.content = content]
       IN  IF NoContent(content)
           THEN /\ log' = Append(log, Raises(call, NoContentError))
                /\ pc' = [pc EXCEPT ![w] = "idle"]
                /\ cur' = [cur EXCEPT ![w] = NoCall]
                /\ files' = files
           ELSE LET response == CodeResponse(content, now)
                    dump == DumpsOfContents[content]
                IN  /\ files' = OpenForWriting(files, get_cache_key(call.prompt))
                    /\ cur' = [cur EXCEPT ![w] =
                                  [call EXCEPT !.response = response,
                                               !.buf = dump.bytes,
                                               !.dumpOk = dump.ok,
                                               !.wrote = TRUE]]
                    /\ pc' = [pc EXCEPT ![w] = "close"]
                    /\ log' = log
    /\ now' = now
    /\ UNCHANGED <<metricsVars, validateVars, toolVars>>

\* ollama.chat raises.
ChatFails(w, e) ==
    /\ pc[w] = "chat"
    /\ modelCalls' = [modelCalls EXCEPT ![cur[w].prompt] = @ + 1]
    /\ log' = Append(log, Raises([cur[w] EXCEPT !.client = "raised",
                                                !.clientError = e],
                                 ClientFailure(e)))
    /\ pc' = [pc EXCEPT ![w] = "idle"]
    /\ cur' = [cur EXCEPT ![w] = NoCall]
    /\ UNCHANGED <<now, files>>
    /\ UNCHANGED <<metricsVars, validateVars, toolVars>>

\* cache_response called directly with a response built from `content`, up
\* to the end of json.dump.
PutStart(w, prompt, content) ==
    /\ Takes(w)
    /\ content # <<>>
    /\ LET response == CodeResponse(content, now)
           dump == DumpsOfContents[content]
       IN  /\ files' = OpenForWriting(files, get_cache_key(prompt))
           /\ cur' = [cur EXCEPT ![w] =
                         [NewCall("put", prompt) EXCEPT
                              !.response = response, !.buf = dump.bytes,
                              !.dumpOk = dump.ok, !.wrote = TRUE]]
    /\ pc' = [pc EXCEPT ![w] = "close"]
    /\ UNCHANGED <<now, modelCalls, log>>
    /\ UNCHANGED <<metricsVars, validateVars, toolVars>>

\* The end of the with block of cache_response: the file is flushed and
\* closed, then json.dump's exception, if any, leaves the call; otherwise
\* cache_response returns None and generate_response returns the response.
CloseFile(w) ==
    /\ pc[w] = "close"
    /\ files' = FlushAndClose(files, get_cache_key(cur[w].prompt), cur[w].buf)
    /\ log' = Append(log,
                 IF ~cur[w].dumpOk THEN Raises(cur[w], DumpFailure)
                 ELSE IF cur[w].kind = "generate"
                      THEN ReturnsResponse(cur[w], cur[w].response)
                      ELSE ReturnsNone(cur[w]))
    /\ pc' = [pc EXCEPT ![w] = "idle"]
    /\ cur' = [cur EXCEPT ![w] = NoCall]
    /\ UNCHANGED <<now, modelCalls>>
    /\ UNCHANGED <<metricsVars, validateVars, toolVars>>

\* get_cached_response called directly.
GetCall(w, prompt) ==
    /\ Takes(w)
    /\ LET call == NewCall("get", prompt)
           got  == get_cached_response(files, prompt)
       IN  log' = Append(log,
                    IF got.kind = "raise" THEN Raises(call, got.error)
                    ELSE IF got.kind = "None" THEN ReturnsNone(call)
                    ELSE [call EXCEPT !.outcome = "return",
                                      !.got = "CodeResponse"])
    /\ UNCHANGED <<now, files, pc, cur, modelCalls>>
    /\ UNCHANGED <<metricsVars, validateVars, toolVars>>

Next ==
    \/ Tick
    \/ \E w \in Workers, p \in Prompts : GenerateStart(w, p)
    \/ \E w \in Workers, c \in Contents : ChatReturns(w, c)
    \/ \E w \in Workers, e \in ClientErrors : ChatFails(w, e)
    \/ \E w \in Workers, p \in Prompts, c \in Contents : PutStart(w, p, c)
    \/ \E w \in Workers : CloseFile(w)
    \/ \E w \in Workers, p \in Prompts : GetCall(w, p)

Spec == Init /\ [][Next]_vars

(* --------------------------- metrics actions -------------------------- *)

\* A second passes on the clock of the metrics.
Elapse ==
    /\ now < MaxTime
    /\ now' = now + 1
    /\ UNCHANGED <<cacheVars, metricsVars, validateVars, toolVars>>

\* metrics.add_request(record), called by any holder of the metrics.
AddRequest(record) ==
    /\ metrics' = add_request(metrics, record)
    /\ UNCHANGED <<now, current_request, llm, runs, stats>>
    /\ UNCHANGED <<cacheVars, validateVars, toolVars>>

\* The records begun so far: a model call started or a record handed in.
Begun ==
    Cardinality({c \in LlmCalls : llm[c] # "idle"})
    + Cardinality({k \in DOMAIN metrics.request_history :
                       metrics.request_history[k].call = 0})

\* on_llm_start of model call c: a new record takes the place of whatever
\* _current_request held.  Calls start in the order of their numbers.
OnLlmStart(c) ==
    /\ llm[c] = "idle"
    /\ \A b \in LlmCalls : b < c => llm[b] # "idle"
    /\ Begun < MaxRequests
    /\ llm' = [llm EXCEPT ![c] = "running"]
    /\ current_request' = <<RequestMetrics(c, now)>>
    /\ UNCHANGED <<now, metrics, runs, stats>>
    /\ UNCHANGED <<cacheVars, validateVars, toolVars>>

\* The record on_llm_end adds: _current_request with its end, duration and
\* success set.
Ended(request, t) ==
    [request EXCEPT !.end_time = t, !.duration = t - request.start_time,
                    !.success = TRUE]

\* on_llm_end of model call c.
OnLlmEnd(c) ==
    /\ llm[c] = "running"
    /\ llm' = [llm EXCEPT ![c] = "ended"]
    /\ IF current_request # <<>>
       THEN /\ metrics' = add_request(metrics, Ended(current_request[1], now))
            /\ current_request' = <<>>
       ELSE UNCHANGED <<metrics, current_request>>
    /\ UNCHANGED <<now, runs, stats>>
    /\ UNCHANGED <<cacheVars, validateVars, toolVars>>

\* The record on_llm_error adds, were success left unset on a record that
\* on_llm_end had marked.
FailedLeftSuccessful(request, t, error) ==
    [request EXCEPT !.end_time = t, !.success = TRUE, !.error = error]

\* The record on_llm_error adds: _current_request with its end, success and
\* error set.
Failed(request, t, error) ==
    [request EXCEPT !.end_time = t, !.success = FALSE, !.error = error]

\* on_llm_error of model call c, told of `error`.
OnLlmError(c, error) ==
    /\ llm[c] = "running"
    /\ llm' = [llm EXCEPT ![c] = "failed"]
    /\ IF current_request # <<>>
       THEN /\ metrics' = add_request(metrics,
                                      Failed(current_request[1], now, error))
            /\ current_request' = <<>>
       ELSE UNCHANGED <<metrics, current_request>>
    /\ UNCHANGED <<now, runs, stats>>
    /\ UNCHANGED <<cacheVars, validateVars, toolVars>>

\* A completed call of AgentCore.run: its prompt, how it ended, and
\* total_requests when it was called and when it ended.
RunCall(prompt, outcome, error, before, after) ==
    [prompt |-> prompt, outcome |-> outcome, error |-> error,
     total_before |-> before, total_after |-> after]

\* AgentCore.run(prompt): the test of the prompt, then agent.run in the
\* executor, which returns or raises.  No statement of run touches the
\* metrics, and nothing hands agent.run a callback.
Run(prompt, result) ==
    /\ Len(runs) < MaxRuns
    /\ runs' = Append(runs,
           IF prompt = ""
           THEN RunCall(prompt, "raise", "ValueError",
                        metrics.total_requests, metrics.total_requests)
           ELSE IF result = "raises"
           THEN RunCall(prompt, "raise", "Exception",
                        metrics.total_requests, metrics.total_requests)
           ELSE RunCall(prompt, "return", "",
                        metrics.total_requests, metrics.total_requests))
    /\ UNCHANGED <<now, metrics, current_request, llm, stats>>
    /\ UNCHANGED <<cacheVars, validateVars, toolVars>>

\* get_performance_stats(): the statistics, kept with the history they
\* were taken from.
GetStats ==
    /\ stats' = <<[history |-> metrics.request_history,
                   result  |-> get_performance_stats(metrics)]>>
    /\ UNCHANGED <<now, metrics, current_request, llm, runs>>
    /\ UNCHANGED <<cacheVars, validateVars, toolVars>>

MetricsNext ==
    \/ Elapse
    \/ \E record \in DirectRecords(now) :
           Begun < MaxRequests /\ AddRequest(record)
    \/ \E c \in LlmCalls : OnLlmStart(c)
    \/ \E c \in LlmCalls : OnLlmEnd(c)
    \/ \E c \in LlmCalls, error \in LlmErrors : OnLlmError(c, error)

\* The metrics under model calls that overlap and direct calls of
\* add_request.
SpecMetrics == Init /\ [][MetricsNext]_vars

\* The records added to the request history: a success and a failure.
HistoryRecords(t) ==
    {r \in DirectRecords(t) : r.duration = 1 \/ ~r.success}

HistoryNext ==
    \/ \E record \in HistoryRecords(now) :
           Len(metrics.request_history) < MaxHistory /\ AddRequest(record)
    \/ GetStats

\* The request history as it grows past what the statistics report.
SpecHistory == Init /\ [][HistoryNext]_vars

RunNext ==
    \/ \E prompt \in RunPrompts, result \in AgentResults : Run(prompt, result)
    \/ GetStats

\* Calls of AgentCore.run, with the statistics read in between as
\* test_metrics_tracking reads them.
SpecRun == Init /\ [][RunNext]_vars

(* -------------------------- validation actions ------------------------ *)

\* A SecurityContext is given a score and a vulnerability list, and
\* update_security_level is called on it.
Classify(security_score, vulnerabilities) ==
    /\ classified' =
           [SecurityContext(now) EXCEPT
               !.security_score = security_score,
               !.vulnerabilities = vulnerabilities,
               !.security_level =
                   update_security_level(security_score, vulnerabilities)]
    /\ UNCHANGED <<now, checked, reordered>>
    /\ UNCHANGED <<cacheVars, metricsVars, toolVars>>

ClassifyNext ==
    \E security_score \in Scores, vulnerabilities \in VulnerabilityLists :
        Classify(security_score, vulnerabilities)

\* update_security_level on every score and vulnerability list.
SpecClassify == Init /\ [][ClassifyNext]_vars

\* SecurityManager.perform_security_checks(code), called now.
Validate(code) ==
    /\ Len(checked) < MaxValidations
    /\ LET result == perform_security_checks(code, now)
       IN  checked' = Append(checked,
                        [code |-> code, time |-> now,
                         context |-> result[1], sanitized_code |-> result[2]])
    /\ UNCHANGED <<now, classified, reordered>>
    /\ UNCHANGED <<cacheVars, metricsVars, toolVars>>

ValidateNext ==
    \/ Tick
    \/ \E code \in RawCodes : Validate(code)

\* Calls of perform_security_checks at different times.
SpecValidate == Init /\ [][ValidateNext]_vars

\* The security checks of `code` with the denylist configured in the
\* order `order`.
Reorder(denylist, order, code) ==
    /\ reordered' = <<[denylist |-> denylist, order |-> order, code |-> code,
                       result |-> ChecksOfOrderings[<<order, code>>]]>>
    /\ UNCHANGED <<now, checked, classified>>
    /\ UNCHANGED <<cacheVars, metricsVars, toolVars>>

OrderNext ==
    \E denylist \in Denylists, code \in OrderCodes :
        \E order \in Orderings(denylist) : Reorder(denylist, order, code)

\* The security checks under orderings of the configured denylist.
SpecOrder == Init /\ [][OrderNext]_vars

(* ------------------------ _safe_run_python_code ------------------------ *)

Returned(text, detail) == [text |-> text, detail |-> detail]

\* A call of the helper up to its first await: validate_code runs, and the
\* call either returns the validation message or hands the code to the
\* worker pool.  A new call takes the first idle slot: idle slots do not
\* differ.
SafeRunCall(h, code) ==
    /\ safe_run[h].at = "idle"
    /\ \A g \in SafeRuns : g < h => safe_run[g].at # "idle"
    /\ LET verdict == validate_code(code)
           call == [NoSafeRun EXCEPT !.code = code, !.is_safe = verdict[1]]
       IN  safe_run' =
               [safe_run EXCEPT ![h] =
                   IF Submits(verdict[1])
                   THEN [call EXCEPT !.at = "pool"]
                   ELSE [call EXCEPT
                            !.at = "done", !.outcome = "return",
                            !.value = Returned("Code validation failed: ",
                                               verdict[2])]]
    /\ UNCHANGED <<now, executions, cacheVars, metricsVars, validateVars>>

\* A worker of the pool runs run_python_code on the code, and the helper
\* returns the string it returned.
PoolReturns(h, result) ==
    /\ safe_run[h].at = "pool"
    /\ executions' = Append(executions, safe_run[h].code)
    /\ safe_run' =
           [safe_run EXCEPT ![h] =
               [@ EXCEPT !.at = "done", !.executed = TRUE,
                         !.outcome = "return",
                         !.value = Returned(result, NoMessage)]]
    /\ UNCHANGED <<now, cacheVars, metricsVars, validateVars>>

\* The awaited call raises an Exception before the code was run; the
\* helper catches it and returns the error string.
PoolRaises(h, error) ==
    /\ safe_run[h].at = "pool"
    /\ safe_run' =
           [safe_run EXCEPT ![h] =
               [@ EXCEPT !.at = "done", !.outcome = "return",
                         !.value = Returned("Error executing code: ",
                                            Message(error, <<>>))]]
    /\ UNCHANGED <<now, executions, cacheVars, metricsVars, validateVars>>

SafeRunNext ==
    \/ \E h \in SafeRuns, code \in Programs : SafeRunCall(h, code)
    \/ \E h \in SafeRuns, result \in ToolResults : PoolReturns(h, result)
    \/ \E h \in SafeRuns, error \in ExecutorErrors : PoolRaises(h, error)

SpecSafeRun == Init /\ [][SafeRunNext]_vars

(* ------------------------------ properties ---------------------------- *)

Calls == DOMAIN log

AllIdle == \A w \in Workers : pc[w] = "idle"

\* Call j started after call i had completed.
Sequential(i, j) == i < j /\ log[j].startedAt >= i

\* Calls i and j overlapped: the one that completed later had started before
\* the other completed.
Concurrent(i, j) == i < j /\ log[j].startedAt < i

RECURSIVE LastWritten(_, _)
\* The response that the last of the first n completed calls to write the
\* cache entry of `prompt` was writing; NoResponse when none wrote it.
LastWritten(prompt, n) ==
    IF n = 0 THEN NoResponse
    ELSE IF log[n].wrote /\ log[n].prompt = prompt THEN log[n].response
    ELSE LastWritten(prompt, n - 1)

\* The response is secure and its security context is fresh at time t.
SecureAndFresh(response, t) ==
    /\ response # NoResponse
    /\ is_secure(response)
    /\ is_valid(response.security_context, t)

\* The model returned content and it was not empty.
GotContent(call) ==
    call.kind = "generate" /\ call.client = "returned" /\ call.content # <<>>

\* C1: generate returns a cached entry without calling the model client only
\* if the entry exists, is secure and is fresh; when the entry a completed
\* call left for the prompt is stale, not validated or not secure, generate
\* does not return it and calls the model client instead.
C1_CacheHitOnlySecureAndFresh ==
    \A i \in Calls :
        log[i].kind = "generate" =>
            LET cached == LastWritten(log[i].prompt, log[i].startedAt)
                usable == SecureAndFresh(cached, log[i].time)
            IN  /\ (log[i].outcome = "return" /\ log[i].client = "")
                       => usable /\ log[i].value = cached
                /\ (log[i].entry # "absent" /\ cached # NoResponse /\ ~usable)
                       => log[i].client # ""

\* C2: of two sequential generate calls with the same prompt, when the
\* response of the first is secure and fresh, the second returns that
\* response from the cache and does not call the model client, which is
\* called once in all.
C2_SecondCallServedFromCache ==
    \A i, j \in Calls :
        ( /\ Sequential(i, j)
          /\ log[i].kind = "generate" /\ log[j].kind = "generate"
          /\ log[i].prompt = log[j].prompt
          /\ GotContent(log[i])
          /\ LastWritten(log[j].prompt, log[j].startedAt) = log[i].response
          /\ SecureAndFresh(log[i].response, log[j].time) )
        => /\ log[j].outcome = "return"
           /\ log[j].value = log[i].response
           /\ log[j].client = ""
           /\ (j = Len(log) /\ AllIdle /\ i = 1 /\ j = 2
                  => modelCalls[log[j].prompt] = 1)

\* C3 as stated: when the model client returns empty content, generate
\* fails with ValidationError and writes nothing to the cache.
C3_NoContentRaisesValidationError ==
    \A i \in Calls :
        (log[i].kind = "generate" /\ log[i].client = "returned"
             /\ log[i].content = <<>>)
        => /\ log[i].outcome = "raise"
           /\ log[i].error = "ValidationError"
           /\ ~log[i].wrote

\* C3 as amended: when the model client returns empty content, generate
\* fails with SecurityError and writes nothing to the cache: the call never
\* opens the cache file.
C3_NoContentRaisesSecurityError ==
    \A i \in Calls :
        (log[i].kind = "generate" /\ log[i].client = "returned"
             /\ log[i].content = <<>>)
        => /\ log[i].outcome = "raise"
           /\ log[i].error = "SecurityError"
           /\ ~log[i].wrote

\* C3 witness: a generate call whose model reply was empty has completed,
\* with another call's entry for its prompt in the cache.
C3_Witness ==
    \E i \in Calls :
        /\ log[i].kind = "generate" /\ log[i].client = "returned"
        /\ log[i].content = <<>>
        /\ files[get_cache_key(log[i].prompt)].exists

\* C4: every generate call that got non-empty content returns its response,
\* and right after it returns get finds a CodeResponse for the prompt (the
\* response it returned).
C4_GeneratedResponseIsCached ==
    \A i \in Calls :
        (GotContent(log[i]) /\ i = Len(log) /\ AllIdle)
        => /\ log[i].outcome = "return"
           /\ log[i].value = log[i].response
           /\ get_cached_response(files, log[i].prompt).kind = "CodeResponse"

\* C5 as stated: when the model client fails, generate fails with
\* ModelError and with no other error.
C5_ClientFailureRaisesModelError ==
    \A i \in Calls :
        (log[i].kind = "generate" /\ log[i].client = "raised")
        => log[i].outcome = "raise" /\ log[i].error = "ModelError"

\* C5 as amended: when the model client fails, generate fails with the
\* client's own exception, unwrapped, and writes nothing to the cache.
C5_ClientFailurePropagates ==
    \A i \in Calls :
        (log[i].kind = "generate" /\ log[i].client = "raised")
        => /\ log[i].outcome = "raise"
           /\ log[i].error = log[i].clientError
           /\ log[i].error \in ClientErrors
           /\ ~log[i].wrote

\* C5 witness: generate calls have completed for each of two different
\* failures of the model client.
C5_Witness ==
    \E i, j \in Calls :
        /\ log[i].kind = "generate" /\ log[i].client = "raised"
        /\ log[j].kind = "generate" /\ log[j].client = "raised"
        /\ log[i].clientError = "ReadTimeout"
        /\ log[j].clientError = "ResponseError"

\* C6: a failure of the cache write does not fail generate: the call whose
\* json.dump raised still returns its response.
C6_WriteFailureDoesNotFailGenerate ==
    \A i \in Calls :
        (GotContent(log[i]) /\ log[i].wrote /\ ~log[i].dumpOk)
        => log[i].outcome = "return" /\ log[i].value = log[i].response

\* C7: a corrupt cache entry is a miss: get returns None for it and never
\* raises, and generate goes on to call the model client.
C7_CorruptEntryIsAMiss ==
    \A i \in Calls :
        log[i].entry = "corrupt" =>
            /\ log[i].kind = "get"
                   => log[i].outcome = "return" /\ log[i].got = "None"
            /\ log[i].kind = "generate" => log[i].client # ""

\* C8: put(p, r) followed by get(p): put returns and get returns a
\* CodeResponse (equal to r).
C8_PutThenGetRoundTrip ==
    \A i, j \in Calls :
        ( /\ j = i + 1 /\ log[j].startedAt = i
          /\ log[i].kind = "put" /\ log[j].kind = "get"
          /\ log[i].prompt = log[j].prompt
          /\ AllIdle /\ j = Len(log) )
        => /\ log[i].outcome = "return"
           /\ log[j].outcome = "return"
           /\ log[j].got = "CodeResponse"

\* C9: put(p, r1); put(p, r2); get(p) returns r2: after two sequential puts
\* for one prompt both have returned, the entry is what the second wrote and
\* get decodes it to a CodeResponse; the cache holds one file for each key.
C9_SecondPutOverwrites ==
    \A i, j \in Calls :
        ( /\ Sequential(i, j) /\ j = Len(log) /\ AllIdle
          /\ log[i].kind = "put" /\ log[j].kind = "put"
          /\ log[i].prompt = log[j].prompt )
        => /\ log[i].outcome = "return" /\ log[j].outcome = "return"
           /\ files[get_cache_key(log[j].prompt)].bytes = log[j].buf
           /\ get_cached_response(files, log[j].prompt).kind = "CodeResponse"
           /\ DOMAIN files = CacheKeys

\* C10: after two concurrent puts for one prompt have both completed, the
\* entry is exactly what the put that completed last wrote, and get returns
\* that response.
C10_LastWriteWins ==
    \A i, j \in Calls :
        ( /\ Concurrent(i, j) /\ j = Len(log) /\ AllIdle
          /\ log[i].kind = "put" /\ log[j].kind = "put"
          /\ log[i].prompt = log[j].prompt )
        => /\ files[get_cache_key(log[j].prompt)].bytes = log[j].buf
           /\ log[j].dumpOk
           /\ get_cached_response(files, log[j].prompt).kind = "CodeResponse"

\* C11: an insecure result is not an error: every generate call that got
\* non-empty content for which is_secure is false (low score, LOW level)
\* returns its response normally.
C11_InsecureResultIsReturned ==
    \A i \in Calls :
        (GotContent(log[i]) /\ ~is_secure(log[i].response))
        => /\ log[i].outcome = "return"
           /\ log[i].got = "CodeResponse"
           /\ log[i].value = log[i].response

(* --------------------------- metrics properties ----------------------- *)

History == metrics.request_history

\* The records of the history that are successes with a duration.
Timed == {k \in DOMAIN History :
              History[k].success /\ History[k].duration # NoDuration}

Successes == {k \in DOMAIN History : History[k].success}

RECURSIVE SumDurations(_)
\* The sum of the durations of the records of the history at the indices S.
SumDurations(S) ==
    IF S = {} THEN 0
    ELSE LET k == CHOOSE x \in S : TRUE
         IN  History[k].duration + SumDurations(S \ {k})

\* The fraction x is the mean of numbers that sum to `sum`, `count` of them
\* (0 when there are none).
IsMean(x, sum, count) ==
    IF count = 0 THEN x.num = 0 ELSE x.num * count = sum * x.den

\* C12: after any sequence of add_request calls with any mix of successful
\* and failed records, total_requests = successful_requests +
\* failed_requests and the length of request_history is total_requests;
\* successful_requests is the number of successful records in it.
C12_CountsAgree ==
    /\ metrics.total_requests
           = metrics.successful_requests + metrics.failed_requests
    /\ Len(metrics.request_history) = metrics.total_requests
    /\ metrics.successful_requests = Cardinality(Successes)

\* C12 witness: three records have been added, successes and failures
\* among them, one of them by the callback.
C12_Witness ==
    /\ Len(History) = 3
    /\ \E i, j, k \in DOMAIN History :
           /\ History[i].success /\ ~History[j].success
           /\ History[k].call # 0

\* C13: average_response_time is the arithmetic mean of the durations of
\* the successful requests recorded so far, also when some successful
\* record carries no duration: it is the mean over the successful records
\* that have a duration, or at least the mean over all successful records
\* with a missing duration taken as 0.
C13_AverageIsMeanOfDurations ==
    \/ IsMean(metrics.average_response_time,
              SumDurations(Timed), Cardinality(Timed))
    \/ IsMean(metrics.average_response_time,
              SumDurations(Timed), Cardinality(Successes))

\* The run calls that reached the agent: those with a prompt.
Handled == {k \in DOMAIN runs : runs[k].prompt # ""}

\* C14: every request handled by the agent adds exactly one record to the
\* metrics, a success unless an exception occurred: each completed run
\* call that reached the agent raised total_requests by one,
\* total_requests is the number of these calls, and successful_requests
\* the number of them that returned.
C14_EveryRunIsRecorded ==
    /\ \A k \in Handled : runs[k].total_after = runs[k].total_before + 1
    /\ metrics.total_requests = Cardinality(Handled)
    /\ metrics.successful_requests
           = Cardinality({k \in Handled : runs[k].outcome = "return"})

\* The records of the history that model call c's start created.
RecordsOf(c) == {k \in DOMAIN History : History[k].call = c}

C16_HistoryAppendOnlyLastTenReported ==
    /\ [][metrics'.request_history # History =>
             /\ Len(metrics'.request_history) = Len(History) + 1
             /\ SubSeq(metrics'.request_history, 1, Len(History)) = History]_vars
    /\ [](\A i \in DOMAIN stats :
             LET history == stats[i].history
                 n == Len(history)
                 m == IF n < 10 THEN n ELSE 10
                 recent == stats[i].result.recent_requests
             IN  /\ Len(recent) = m
                 /\ \A k \in 1 .. m :
                        recent[k] = RecentRequest(history[n - m + k])
                 /\ stats[i].result.total_requests = n
                 /\ n = 0 => stats[i].result.success_rate.num = 0)

\* C16 witness: statistics were taken from a history of more than ten
\* records whose first record, a failure, is not among the ten reported,
\* which are all successes.
C16_Witness ==
    \E i \in DOMAIN stats :
        /\ Len(stats[i].history) > 10
        /\ ~stats[i].history[1].success
        /\ \A k \in DOMAIN stats[i].result.recent_requests :
               stats[i].result.recent_requests[k].success

(* -------------------------- validation properties --------------------- *)

\* C17: update_security_level yields HIGH iff score >= 90 and the
\* vulnerability list is empty, MEDIUM iff score >= 70 and not HIGH, and
\* LOW iff score < 70.
C17_Classification ==
    LET score == classified.security_score
        clean == classified.vulnerabilities = <<>>
        level == classified.security_level
    IN  /\ level \in {"HIGH", "MEDIUM", "LOW"}
        /\ level = "HIGH" <=> (score >= 90 /\ clean)
        /\ level = "MEDIUM" <=> ((70 <= score /\ score < 90)
                                     \/ (score >= 90 /\ ~clean))
        /\ level = "LOW" <=> score < 70

\* C17 witness: a context with score 90 and a vulnerability was classified
\* MEDIUM.
C17_Witness ==
    /\ classified.security_score = 90
    /\ classified.vulnerabilities # <<>>
    /\ classified.security_level = "MEDIUM"

\* The text of the marker that tells of a removal.
SecurityRemoved ==
    <<"S", "E", "C", "U", "R", "I", "T", "Y", " ",
      "R", "E", "M", "O", "V", "E", "D">>

HasDangerousPattern(code) ==
    \E k \in DOMAIN dangerous_patterns : Contains(code, dangerous_patterns[k])

\* C18: the security checks on code that contains a denylisted pattern
\* yield sanitized code with the 'SECURITY REMOVED' marker and a context
\* with validated false.
C18_DenylistedCodeIsNotValidated ==
    \A k \in DOMAIN checked :
        HasDangerousPattern(checked[k].code) =>
            /\ Contains(checked[k].sanitized_code, SecurityRemoved)
            /\ ~checked[k].context.validated

Contexts ==
    {cur[w].response.security_context : w \in Workers}
    \cup {log[i].response.security_context : i \in Calls}
    \cup {log[i].value.security_context : i \in Calls}
    \cup {checked[k].context : k \in DOMAIN checked}

\* C20: every security context has the level that is the classification of
\* its own score and vulnerability list.
C20_LevelIsClassificationOfScore ==
    \A ctx \in Contexts :
        ctx.security_level
            = update_security_level(ctx.security_score, ctx.vulnerabilities)

\* C20 witness: generate calls have built responses whose contexts are
\* MEDIUM with score 80 and LOW with score 60.
C20_Witness ==
    \E i, j \in Calls :
        /\ log[i].kind = "generate" /\ log[j].kind = "generate"
        /\ log[i].response.security_context.security_score = 80
        /\ log[i].response.security_context.security_level = "MEDIUM"
        /\ log[j].response.security_context.security_score = 60
        /\ log[j].response.security_context.security_level = "LOW"

\* The denylisted patterns that occur in a text.
PatternsIn(text) ==
    {k \in DOMAIN dangerous_patterns : Contains(text, dangerous_patterns[k])}

\* C21: the score of the security checks is max(0, 100 - 20 * k) for the k
\* denylisted patterns that occur in the sanitized code, it is within
\* 0..100, and for raw code with no denylisted pattern the score is 100,
\* the level HIGH and the sanitized code the raw code.
C21_ScoreCountsPatternsLeft ==
    \A i \in DOMAIN checked :
        LET k == Cardinality(PatternsIn(checked[i].sanitized_code))
            score == checked[i].context.security_score
        IN  /\ score = IF 100 - 20 * k > 0 THEN 100 - 20 * k ELSE 0
            /\ score >= 0 /\ score <= 100
            /\ PatternsIn(checked[i].code) = {} =>
                   /\ score = 100
                   /\ checked[i].context.security_level = "HIGH"
                   /\ checked[i].sanitized_code = checked[i].code

\* C21 witness: code with six denylisted patterns was checked and scored
\* 0, and code with none scored 100.
C21_Witness ==
    \E i, j \in DOMAIN checked :
        /\ Cardinality(PatternsIn(checked[i].sanitized_code)) = 6
        /\ checked[i].context.security_score = 0
        /\ PatternsIn(checked[j].code) = {}
        /\ checked[j].code # <<>>
        /\ checked[j].context.security_score = 100

\* C22: for raw code with a denylisted pattern p, the sanitized code has
\* the marker followed by p, the vulnerability list of the context names
\* p exactly when p still occurs in the sanitized code, and the list is
\* empty only when no denylisted pattern occurs in the sanitized code.
C22_VulnerabilitiesNamePatternsLeft ==
    \A i \in DOMAIN checked :
        LET vulnerabilities == checked[i].context.vulnerabilities
            sanitized_code == checked[i].sanitized_code
        IN  /\ \A k \in PatternsIn(checked[i].code) :
                   LET p == dangerous_patterns[k]
                   IN  /\ Contains(sanitized_code, RemovedMarker \o p)
                       /\ (\E v \in DOMAIN vulnerabilities :
                               vulnerabilities[v] = p)
                              <=> Contains(sanitized_code, p)
            /\ vulnerabilities = <<>> => PatternsIn(sanitized_code) = {}

\* C23 as stated: the order of the denylist does not affect the security
\* checks: under every ordering of a list, also of one whose patterns
\* overlap or occur in the marker, the sanitized code and the score are
\* those under the list as configured.
C23_OrderDoesNotMatter ==
    \A i \in DOMAIN reordered :
        reordered[i].result
            = ChecksOfOrderings[<<reordered[i].denylist, reordered[i].code>>]

\* C23 as amended: under every ordering of the program's own denylist the
\* sanitized code and the score are those of the program.
C23_OrderOfOwnDenylistDoesNotMatter ==
    \A i \in DOMAIN reordered :
        reordered[i].denylist = dangerous_patterns =>
            /\ reordered[i].result
                   = ChecksOfOrderings[<<dangerous_patterns,
                                         reordered[i].code>>]
            /\ reordered[i].code \in RawCodes =>
                   LET checks == ChecksOfContents[reordered[i].code]
                   IN  /\ reordered[i].result.sanitized_code
                              = checks.sanitized_code
                       /\ reordered[i].result.security_score
                              = checks.security_score

\* C23 witness: code with six patterns was checked under the program's
\* denylist backwards.
C23_Witness ==
    \E i \in DOMAIN reordered :
        /\ reordered[i].denylist = dangerous_patterns
        /\ reordered[i].order = Reversed(dangerous_patterns)
        /\ reordered[i].code = SixPatterns
        /\ reordered[i].result.security_score = 0

\* C24: under any interleaving of the start, end and error events of model
\* calls that share one callback, every call that has ended or failed has
\* exactly one record in the history, the one its own start created, with
\* its own outcome, and no record is added for a call that is still
\* running.
C24_OverlappingCallsEachRecorded ==
    \A c \in LlmCalls :
        /\ llm[c] \in {"ended", "failed"} =>
               /\ Cardinality(RecordsOf(c)) = 1
               /\ \A k \in RecordsOf(c) :
                      History[k].success = (llm[c] = "ended")
        /\ llm[c] \in {"idle", "running"} => RecordsOf(c) = {}

\* The strings _safe_run_python_code returns begin with one of these.
ReturnedTexts ==
    {"Code validation failed: ", "Error executing code: "} \cup ToolResults

\* C25: the code-execution helper is gated by validation.  A call of
\* _safe_run_python_code hands its code to the worker pool, and
\* run_python_code runs it, only if validate_code returned is_safe = true;
\* for code that fails validation nothing is executed and the call returns
\* the 'Code validation failed' message with validate_code's error; and
\* every call that is over has returned a string, none has raised.
C25_ExecutionIsGatedByValidation ==
    /\ \A h \in SafeRuns :
           LET r == safe_run[h]
               verdict == validate_code(r.code)
           IN  /\ r.at # "idle" => r.is_safe = verdict[1]
               /\ (r.at = "pool" \/ r.executed) => verdict[1]
               /\ r.at = "done" =>
                      /\ r.outcome = "return"
                      /\ r.value.text \in ReturnedTexts
               /\ (r.at = "done" /\ ~verdict[1]) =>
                      /\ ~r.executed
                      /\ r.value = Returned("Code validation failed: ",
                                            verdict[2])
    /\ \A k \in DOMAIN executions : validate_code(executions[k])[1]

\* The dangerous code of the test was refused with its blocked import,
\* and a code that passed validation was run.
C25_Witness ==
    /\ \E h \in SafeRuns :
           /\ safe_run[h].at = "done"
           /\ safe_run[h].code = DangerousCode
           /\ safe_run[h].value =
                  Returned("Code validation failed: ",
                           Message("Blocked import: ", <<"os">>))
    /\ \E h \in SafeRuns :
           /\ safe_run[h].at = "done"
           /\ safe_run[h].executed
           /\ safe_run[h].value.text = "Output:"
    /\ executions # <<>>

====
